---- MODULE Spec2Model ----
(***************************************************************************)
(* Model of the AI code editor: the prefix/suffix diff and the animated    *)
(* patch applier of MonacoEditorComponent, and the console relay and the   *)
(* debounced preview rebuild of AppComponent.                              *)
(*                                                                         *)
(* A text is a sequence of one-character strings; offsets are 0-based as   *)
(* in the source, sequence indices 1-based.                                *)
(***************************************************************************)
EXTENDS Integers, Sequences, FiniteSets, TLC

\* ------------------------------------------------------------------ bounds
\* Longest text of the diff specification.
MaxLen == 3
\* Longest target text of applyChangesWithAnimation.
MaxText == 2

NL == "\n"
\* Characters of the diff specification.
Chars == {"a", "b", NL}
\* Characters of the editor specification.
EdChars == {"a", NL}

StringsOver(cs, n) == UNION {[1..k -> cs] : k \in 0..n}
Strings == StringsOver(Chars, MaxLen)
Texts == StringsOver(EdChars, MaxText)
\* The texts the parent puts into the content input (the contents of the
\* files it shows).
InputTexts == {<<>>, <<"a">>, <<NL>>}

Min(a, b) == IF a <= b THEN a ELSE b
Max(a, b) == IF a >= b THEN a ELSE b

\* ------------------------------------------------------- the diff engine
\* String.prototype.substring(start, end): both clamped to [0, length],
\* swapped when start > end.
JsSubstring(t, start, end) ==
  LET a == Max(0, Min(start, Len(t)))
      b == Max(0, Min(end, Len(t)))
      lo == Min(a, b)
      hi == Max(a, b)
  IN SubSeq(t, lo + 1, hi)

\* The forward scan without the comparison of the characters.
RECURSIVE ScanPrefixUncompared(_, _, _)
ScanPrefixUncompared(old, new, p) ==
  IF p < Len(old) /\ p < Len(new)
  THEN ScanPrefixUncompared(old, new, p + 1)
  ELSE p

\* The forward scan: while (prefixLen < old.length && prefixLen < new.length
\* && old[prefixLen] === new[prefixLen]) prefixLen++.
RECURSIVE ScanPrefix(_, _, _)
ScanPrefix(old, new, p) ==
  IF p < Len(old) /\ p < Len(new) /\ old[p + 1] = new[p + 1]
  THEN ScanPrefix(old, new, p + 1)
  ELSE p

PrefixLen(old, new) == ScanPrefix(old, new, 0)

\* The backward scan without the "- prefixLen" cap (the scans may overlap).
RECURSIVE ScanSuffixUncapped(_, _, _, _)
ScanSuffixUncapped(old, new, p, s) ==
  IF s < Len(old) /\ s < Len(new) /\ old[Len(old) - s] = new[Len(new) - s]
  THEN ScanSuffixUncapped(old, new, p, s + 1)
  ELSE s

\* The backward scan: while (suffixLen < old.length - prefixLen &&
\* suffixLen < new.length - prefixLen &&
\* old[old.length - 1 - suffixLen] === new[new.length - 1 - suffixLen]) suffixLen++.
RECURSIVE ScanSuffix(_, _, _, _)
ScanSuffix(old, new, p, s) ==
  IF s < Len(old) - p /\ s < Len(new) - p /\ old[Len(old) - s] = new[Len(new) - s]
  THEN ScanSuffix(old, new, p, s + 1)
  ELSE s

SuffixLen(old, new, p) == ScanSuffix(old, new, p, 0)

\* prefixLen, suffixLen and textToInsert as applyChangesWithAnimation computes them.
Diff(old, new) ==
  LET p == PrefixLen(old, new)
      s == SuffixLen(old, new, p)
  IN [prefixLen |-> p,
      suffixLen |-> s,
      textToInsert |-> JsSubstring(new, p, Len(new) - s)]

NoDiff == [prefixLen |-> -1, suffixLen |-> -1, textToInsert |-> <<>>]

\* ------------------------------------------------ the text buffer (Monaco)
\* Number of line breaks among the first k characters of t.
NLCount(t, k) == Cardinality({j \in 1..k : t[j] = NL})

LineCount(t) == NLCount(t, Len(t)) + 1

\* Offset of the first character of line l (1 <= l <= LineCount(t)).
LineStart(t, l) ==
  IF l = 1 THEN 0
  ELSE CHOOSE o \in 1..Len(t) : t[o] = NL /\ NLCount(t, o) = l - 1

\* Offset just after the last character of line l (before its line break).
LineEnd(t, l) ==
  IF l = LineCount(t) THEN Len(t)
  ELSE (CHOOSE o \in 1..Len(t) : t[o] = NL /\ NLCount(t, o) = l) - 1

\* model.getPositionAt(offset): the offset is clamped to the text, the position
\* is a 1-based line number and column.
PositionAt(t, offset) ==
  LET o == Max(0, Min(offset, Len(t)))
      l == NLCount(t, o) + 1
  IN [lineNumber |-> l, column |-> o - LineStart(t, l) + 1]

\* The offset a position denotes in t, after the buffer's validation of the
\* position (line clamped to the text's lines, column to the line's length).
OffsetAt(t, pos) ==
  IF pos.lineNumber < 1 THEN 0
  ELSE IF pos.lineNumber > LineCount(t) THEN Len(t)
  ELSE LET ls == LineStart(t, pos.lineNumber)
           le == LineEnd(t, pos.lineNumber)
       IN Max(ls, Min(ls + pos.column - 1, le))

PosLE(p, q) ==
  \/ p.lineNumber < q.lineNumber
  \/ p.lineNumber = q.lineNumber /\ p.column <= q.column

\* new monaco.Range(startLine, startColumn, endLine, endColumn): the
\* constructor orders its two ends.
MkRange(p, q) ==
  IF PosLE(p, q) THEN [startPos |-> p, endPos |-> q]
  ELSE [startPos |-> q, endPos |-> p]

NoRange == MkRange([lineNumber |-> 1, column |-> 1], [lineNumber |-> 1, column |-> 1])

\* The offsets [from, to] that a range covers in the text t.
RangeOffsets(t, r) ==
  LET a == OffsetAt(t, r.startPos)
      b == OffsetAt(t, r.endPos)
  IN [from |-> Min(a, b), to |-> Max(a, b)]

\* The text after one ranged edit { range, text }.
ApplyEdit(t, r, text) ==
  LET o == RangeOffsets(t, r)
  IN SubSeq(t, 1, o.from) \o text \o SubSeq(t, o.to + 1, Len(t))

\* The cursor selection [from, to] after the text of [s, e) was deleted.
SelAfterDelete(sl, s, e) ==
  LET adj(o) == IF o <= s THEN o ELSE IF o <= e THEN s ELSE o - (e - s)
  IN [from |-> adj(sl.from), to |-> adj(sl.to)]

\* The cursor selection after n characters were inserted at offset x: the
\* selection grows when typing at its edges, and an empty selection stays
\* empty, after the inserted text.
SelAfterInsert(sl, x, n) ==
  LET f == IF x < sl.from THEN sl.from + n ELSE sl.from
      t == IF x <= sl.to THEN sl.to + n ELSE sl.to
  IN IF sl.from = sl.to THEN [from |-> t, to |-> t] ELSE [from |-> f, to |-> t]

\* The selection a saved view state restores in the text new: the saved
\* positions are validated against the new text.
SelRestored(old, sl, new) ==
  [from |-> OffsetAt(new, PositionAt(old, sl.from)),
   to |-> OffsetAt(new, PositionAt(old, sl.to))]

\* The calls of applyChangesWithAnimation that may be in progress: one for
\* each invocation of askAI. A behaviour of the editor specification makes
\* the calls of EditorCalls.
ApplyIds == {1, 2}
EditorCalls == {1}
\* Actions of the user in the editor (typing, deleting, moving the caret).
MaxUserActs == 2

VARIABLES
  dOld,          \* diff specification: oldContent
  dNew,          \* diff specification: newContent
  dRes,          \* diff specification: the computed result, NoDiff before the scans
  editor,        \* this.editor: "none" (undefined, not created), "ready", "disposed" (undefined again)
  buffer,        \* the text of the editor's model, editor.getValue()
  sel,           \* the cursor selection [from, to] in offsets; the caret is at to
  isAnimating,   \* the isAnimating flag
  contentInput,  \* the content input, content()
  ap,            \* the calls of applyChangesWithAnimation, by call id
  ev,            \* what the last step did: notification, emission, finished call
  userActs,      \* number of actions the user has made in the editor
  files,         \* the file collection, files()
  openFiles,     \* the open tabs, openFiles()
  activeFile,    \* the active file, activeFile(), or NoFile
  previewIframe, \* whether the view query has set previewIframe
  consoleLogs,   \* the console log store, consoleLogs()
  debounced,     \* the files value the debounce timer holds, or NoPending
  iframeSrcDoc,  \* the sandbox document, iframeSrcDoc()
  timer,         \* the time the debounce timer has run, in ms
  sinceChange,   \* the time since the files signal last got a value, in ms
  aev,           \* what the last step of the application did
  ask,           \* ask[i]: the state of invocation i of askAI
  isAiLoading,   \* isAiLoading()
  isAiApplyingEdits, \* isAiApplyingEdits()
  aiExplanation, \* aiExplanation()
  aiError        \* aiError()

dvars == <<dOld, dNew, dRes>>
evars == <<editor, buffer, sel, isAnimating, contentInput, ap, ev, userActs>>
avars == <<files, openFiles, activeFile, previewIframe, consoleLogs, debounced, iframeSrcDoc,
           timer, sinceChange, aev>>
kvars == <<ask, isAiLoading, isAiApplyingEdits, aiExplanation, aiError>>
vars == <<dOld, dNew, dRes, editor, buffer, sel, isAnimating, contentInput, ap, ev,
          userActs, files, openFiles, activeFile, previewIframe, consoleLogs,
          debounced, iframeSrcDoc, timer, sinceChange, aev,
          ask, isAiLoading, isAiApplyingEdits, aiExplanation, aiError>>

\* A call that has not been made.
IdleApply ==
  [pc |-> "idle", started |-> FALSE, newContent |-> <<>>, range |-> NoRange,
   text |-> <<>>, i |-> 0, ops |-> <<>>, over |-> FALSE]

NoEv ==
  [src |-> "none", anim |-> FALSE, emit |-> FALSE, wrote |-> FALSE, fin |-> 0,
   threw |-> FALSE]

Caret0 == [from |-> 0, to |-> 0]

\* ------------------------------------------------- the application state
NoFile == [name |-> "", content |-> <<>>, language |-> ""]
\* No files value is held: a list no collection equals.
NoPending == << [name |-> "none", content |-> <<>>, language |-> ""] >>
Placeholder == <<"<!-- placeholder -->">>

\* The file collection of loadFilesFromStorage when nothing is stored (the
\* contents are shortened).
DefaultFiles ==
  << [name |-> "index.html", content |-> <<"a">>, language |-> "html"],
     [name |-> "style.css", content |-> <<NL>>, language |-> "css"],
     [name |-> "script.js", content |-> <<>>, language |-> "js"] >>

IframeWindow == "iframe"
\* The sources a message event may carry: the preview's window, another
\* window, the host window, none.
Sources == {IframeWindow, "other", "host", "none"}
MsgTypes == {"CONSOLE_LOG", "OTHER"}
\* The kinds of a ConsoleLog entry.
LogKinds == {"log", "warn", "error", "info", "debug"}
\* The payloads a message may carry: two that the interceptor script posts,
\* and one that code of the previewed page posts itself with a kind that no
\* ConsoleLog has.
Payloads ==
  { [type |-> "warn", data |-> <<"x">>, timestamp |-> "t"],
    [type |-> "log", data |-> <<>>, timestamp |-> "t"],
    [type |-> "trace", data |-> <<"x">>, timestamp |-> ""] }
\* debounceTime(300), and the step in which the model lets time pass.
DebounceTime == 300
TickMs == DebounceTime \div 2
\* The texts an edit of the user leaves in the active file.
EditTexts == {<<>>, <<"a">>}
\* Entries the console log store may hold.
MaxLogs == 2

NoAev ==
  [op |-> "none", source |-> "", type |-> "", payload |-> NoFile, prev |-> <<>>,
   newDoc |-> FALSE]

\* The first file of a language, as files.find(f => f.language === lang).
RECURSIVE FindLang(_, _, _)
FindLang(fs, lang, k) ==
  IF k > Len(fs) THEN NoFile
  ELSE IF fs[k].language = lang THEN fs[k]
  ELSE FindLang(fs, lang, k + 1)

\* buildIframeContent(files): the parts of the document, top to bottom.
BuildIframeContentBare(fs) ==
  LET htmlFile == FindLang(fs, "html", 1)
      cssFile == FindLang(fs, "css", 1)
      jsFile == FindLang(fs, "js", 1)
  IN [style |-> IF cssFile = NoFile THEN <<>> ELSE cssFile.content,
      interceptor |-> "getConsoleInterceptorScript",
      body |-> IF htmlFile = NoFile THEN <<>> ELSE htmlFile.content,
      script |-> IF jsFile = NoFile THEN <<>> ELSE jsFile.content]

BuildIframeContent(fs) ==
  LET htmlFile == FindLang(fs, "html", 1)
      cssFile == FindLang(fs, "css", 1)
      jsFile == FindLang(fs, "js", 1)
  IN [style |-> IF cssFile = NoFile THEN <<>> ELSE cssFile.content,
      interceptor |-> "getConsoleInterceptorScript",
      body |-> IF htmlFile = NoFile THEN Placeholder ELSE htmlFile.content,
      script |-> IF jsFile = NoFile THEN <<>> ELSE jsFile.content]

\* The open files at construction: the files of the three default names.
InitialOpenFiles(fs) ==
  SelectSeq(fs, LAMBDA f : f.name \in {"index.html", "style.css", "script.js"})

\* ------------------------------------------------------ the AI assistant
\* The invocations of askAI that may be in progress at a time.
AskIds == {1, 2}
Langs == {"html", "css", "js"}
\* A field that the response does not carry.
Absent == <<"absent">>
NoResponse == [explanation |-> <<>>, html |-> Absent, css |-> Absent, js |-> Absent]
\* The responses of getCodeModification: a css patch alone; an html and a js
\* patch; the html text as it is together with the empty text for css.
Responses ==
  { [explanation |-> <<"e">>, html |-> Absent, css |-> <<"a">>, js |-> Absent],
    [explanation |-> <<"e">>, html |-> <<NL>>, css |-> Absent, js |-> <<"a">>],
    [explanation |-> <<"e">>, html |-> <<"a">>, css |-> <<>>, js |-> Absent] }
\* The texts of the prompt field.
Prompts == {" ", "p"}
\* !this.aiPrompt().trim()
IsBlank(prompt) == prompt \in {"", " "}
NoChangesNote == <<"(no changes proposed)">>

\* The errors of getCodeModification and the message that handleError
\* throws for each (the messages are shortened).
FailKinds == {"no key", "API key not valid", "JSON", "network"}
HandleError(kind) ==
  CASE kind = "API key not valid" -> "the API key is not valid"
    [] kind = "JSON" -> "the AI returned a malformed format"
    [] kind = "no key" -> "the API key is not set"
    [] OTHER -> "an error occurred when calling the AI"
ErrorMessages == {HandleError(kind) : kind \in FailKinds}
\* The message of the TypeError of a call on this.editor when it is undefined.
TypeErrorMessage == "cannot read properties of undefined"

\* The catch block of askAI: the text it puts into aiError.
CatchKeepsError(message) == ""

CatchMessage(message) == message

Patch(r, lang) ==
  CASE lang = "html" -> r.html
    [] lang = "css" -> r.css
    [] OTHER -> r.js

DefaultName(lang) ==
  CASE lang = "html" -> "index.html"
    [] lang = "css" -> "style.css"
    [] OTHER -> "script.js"

\* file?.content ?? ''
ContentOf(f) == IF f = NoFile THEN <<>> ELSE f.content

\* "response.html && ...": the field is there and is not the empty text.
Truthy(text) == text # Absent /\ text # <<>>

\* The job askAI queues for a language, given the files cur it found before
\* the call and the response r: a sequence of one job or of none.
JobFor(cur, r, lang) ==
  IF Truthy(Patch(r, lang)) /\ Patch(r, lang) # ContentOf(cur[lang])
  THEN << [fileName |-> IF cur[lang] = NoFile THEN DefaultName(lang) ELSE cur[lang].name,
           after |-> Patch(r, lang)] >>
  ELSE <<>>

Diffs(cur, r) == JobFor(cur, r, "html") \o JobFor(cur, r, "css") \o JobFor(cur, r, "js")

\* files.find(f => f.name === name)
RECURSIVE FindName(_, _, _)
FindName(fs, name, k) ==
  IF k > Len(fs) THEN NoFile
  ELSE IF fs[k].name = name THEN fs[k]
  ELSE FindName(fs, name, k + 1)

\* The first job from k on whose file is in fs; Len(ds) + 1 when there is none.
RECURSIVE NextJob(_, _, _)
NextJob(fs, ds, k) ==
  IF k > Len(ds) THEN k
  ELSE IF FindName(fs, ds[k].fileName, 1) # NoFile THEN k
  ELSE NextJob(fs, ds, k + 1)

\* An invocation of askAI that has not been made.
IdleAsk ==
  [pc |-> "idle", cur |-> [l \in Langs |-> NoFile], resp |-> NoResponse,
   diffs |-> <<>>, k |-> 0, applied |-> <<>>, committed |-> <<>>, failed |-> 0,
   error |-> FALSE]

AskIdle ==
  /\ ask = [i \in AskIds |-> IdleAsk]
  /\ isAiLoading = FALSE
  /\ isAiApplyingEdits = FALSE
  /\ aiExplanation = <<>>
  /\ aiError = ""

AppIdle ==
  /\ files = DefaultFiles
  /\ openFiles = InitialOpenFiles(DefaultFiles)
  /\ activeFile = IF Len(InitialOpenFiles(DefaultFiles)) > 0
                  THEN InitialOpenFiles(DefaultFiles)[1] ELSE NoFile
  /\ previewIframe = FALSE
  /\ consoleLogs = <<>>
  /\ debounced = DefaultFiles
  /\ iframeSrcDoc = BuildIframeContent(DefaultFiles)
  /\ timer = 0
  /\ sinceChange = 0
  /\ aev = NoAev

DiffIdle ==
  /\ dOld = <<>>
  /\ dNew = <<>>
  /\ dRes = NoDiff

EditorIdle ==
  /\ editor = "none"
  /\ buffer = <<>>
  /\ sel = Caret0
  /\ isAnimating = FALSE
  /\ contentInput = <<>>
  /\ ap = [a \in ApplyIds |-> IdleApply]
  /\ ev = NoEv
  /\ userActs = 0

\* ------------------------------------------- specification of the diff
InitDiff ==
  /\ dOld \in Strings
  /\ dNew \in Strings
  /\ dRes = NoDiff
  /\ EditorIdle
  /\ AppIdle
  /\ AskIdle

DiffRun ==
  /\ dRes = NoDiff
  /\ dRes' = Diff(dOld, dNew)
  /\ UNCHANGED <<dOld, dNew>>
  /\ UNCHANGED <<evars, avars, kvars>>

NextDiff == DiffRun

SpecDiff == InitDiff /\ [][NextDiff]_vars

\* The text that replacing old[p : len(old)-s] by textToInsert yields.
Patched(old, d) ==
  SubSeq(old, 1, d.prefixLen) \o d.textToInsert
    \o SubSeq(old, Len(old) - d.suffixLen + 1, Len(old))

\* C1: for all old and new, replacing the middle segment of old by
\* textToInsert = new[p : len(new)-s] reconstructs new exactly.
C1_DiffReconstructs ==
  dRes # NoDiff =>
    /\ dRes.textToInsert = SubSeq(dNew, dRes.prefixLen + 1, Len(dNew) - dRes.suffixLen)
    /\ Patched(dOld, dRes) = dNew

C1_Witness ==
  /\ dRes # NoDiff
  /\ dRes.prefixLen > 0
  /\ dRes.suffixLen > 0
  /\ dRes.textToInsert # <<>>
  /\ Len(dOld) > dRes.prefixLen + dRes.suffixLen

\* C2: prefixLen and suffixLen are >= 0 and prefixLen + suffixLen <=
\* min(len(old), len(new)): the two regions never overlap in either string.
C2_NoOverlap ==
  dRes # NoDiff =>
    /\ dRes.prefixLen >= 0
    /\ dRes.suffixLen >= 0
    /\ dRes.prefixLen + dRes.suffixLen <= Min(Len(dOld), Len(dNew))

\* A repeated character, where an uncapped backward scan would overlap.
C2_Witness ==
  /\ dRes # NoDiff
  /\ dOld = <<"a", "a", "a">>
  /\ dNew = <<"a", "a">>
  /\ dRes.prefixLen = 2
  /\ dRes.suffixLen = 0

\* --------------------------------------- the editor component's handlers
\* The listener of onDidChangeContent: whether it emits contentChange, given
\* the flag it reads, the buffer text and content().
EmitsUnguarded(anim, cur, content) == cur # content

OnDidChangeContent(anim, cur, content) == ~anim /\ cur # content

\* The effect on the content input: whether it writes newContent into the buffer.
EffectWrites(ed, anim, cur, newContent) ==
  ed = "ready" /\ ~anim /\ cur # newContent

\* The finally block: whether it force-sets the buffer to newContent.
FinallySkipsForce(ed, cur, newContent) == FALSE

FinallyForces(ed, cur, newContent) == ed = "ready" /\ cur # newContent

\* The finally block: the value it gives isAnimating.
FlagAfterFinallyKept == TRUE

FlagAfterFinally == FALSE

\* The positions of a call that has edits and timers ahead: a call there is
\* in flight.
Running == {"selected", "deleted", "typing"}

\* The closure type(): whether it is at the end of the text (the else branch
\* of "if (i < text.length)"), where it resolves the promise.
TypingDoneEarly(i, text) == i + 1 >= Len(text)

TypingDone(i, text) == ~(i < Len(text))

\* ------------------------------------------- specification of the editor
InitEditorSpec ==
  /\ DiffIdle
  /\ editor = "none"
  /\ buffer = <<>>
  /\ sel = Caret0
  /\ isAnimating = FALSE
  /\ contentInput \in InputTexts
  /\ ap = [a \in ApplyIds |-> IdleApply]
  /\ ev = NoEv
  /\ userActs = 0
  /\ AppIdle
  /\ AskIdle

\* initEditor: monaco.editor.create with value content(); the change listener
\* is registered afterwards.
InitEditor ==
  /\ editor = "none"
  /\ editor' = "ready"
  /\ buffer' = contentInput
  /\ sel' = Caret0
  /\ ev' = [NoEv EXCEPT !.src = "create"]
  /\ UNCHANGED <<isAnimating, contentInput, ap>>
  /\ UNCHANGED <<dvars, userActs, avars, kvars>>

\* ngOnDestroy: the editor is disposed and this.editor becomes undefined.
NgOnDestroy ==
  /\ editor = "ready"
  /\ editor' = "disposed"
  /\ ev' = NoEv
  /\ UNCHANGED <<buffer, sel, isAnimating, contentInput, ap>>
  /\ UNCHANGED <<dvars, userActs, avars, kvars>>

\* The parent sets the content input to c and the effect runs: it writes c
\* into the buffer unless there is no editor, an animation runs or the text is
\* the same; the listener then sees the buffer equal to content().
SetContent(c) ==
  /\ c # contentInput
  /\ contentInput' = c
  /\ LET w == EffectWrites(editor, isAnimating, buffer, c)
     IN /\ buffer' = IF w THEN c ELSE buffer
        /\ sel' = IF w THEN SelRestored(buffer, sel, c) ELSE sel
        /\ ev' = [src |-> "input", anim |-> isAnimating,
                  emit |-> w /\ OnDidChangeContent(isAnimating, c, c),
                  wrote |-> w, fin |-> 0, threw |-> FALSE]
  /\ UNCHANGED <<editor, isAnimating, ap>>
  /\ UNCHANGED <<dvars, userActs, avars, kvars>>

\* The user types the character c at the caret, replacing the selection.
UserType(c) ==
  /\ editor = "ready"
  /\ userActs < MaxUserActs
  /\ userActs' = userActs + 1
  /\ LET nb == SubSeq(buffer, 1, sel.from) \o <<c>> \o SubSeq(buffer, sel.to + 1, Len(buffer))
     IN /\ buffer' = nb
        /\ sel' = [from |-> sel.from + 1, to |-> sel.from + 1]
        /\ ev' = [src |-> "user", anim |-> isAnimating,
                  emit |-> OnDidChangeContent(isAnimating, nb, contentInput),
                  wrote |-> FALSE, fin |-> 0, threw |-> FALSE]
  /\ UNCHANGED <<editor, isAnimating, contentInput, ap>>
  /\ UNCHANGED <<dvars, avars, kvars>>

\* The user deletes the selection, or the character before the caret.
UserBackspace ==
  /\ editor = "ready"
  /\ userActs < MaxUserActs
  /\ userActs' = userActs + 1
  /\ sel.to > 0
  /\ LET f == IF sel.from < sel.to THEN sel.from ELSE sel.to - 1
         nb == SubSeq(buffer, 1, f) \o SubSeq(buffer, sel.to + 1, Len(buffer))
     IN /\ buffer' = nb
        /\ sel' = [from |-> f, to |-> f]
        /\ ev' = [src |-> "user", anim |-> isAnimating,
                  emit |-> OnDidChangeContent(isAnimating, nb, contentInput),
                  wrote |-> FALSE, fin |-> 0, threw |-> FALSE]
  /\ UNCHANGED <<editor, isAnimating, contentInput, ap>>
  /\ UNCHANGED <<dvars, avars, kvars>>

\* The user puts the caret at offset o.
UserMoveCaret(o) ==
  /\ editor = "ready"
  /\ userActs < MaxUserActs
  /\ userActs' = userActs + 1
  /\ o <= Len(buffer)
  /\ sel # [from |-> o, to |-> o]
  /\ sel' = [from |-> o, to |-> o]
  /\ ev' = NoEv
  /\ UNCHANGED <<editor, buffer, isAnimating, contentInput, ap>>
  /\ UNCHANGED <<dvars, avars, kvars>>

\* The finally block of call a with target nc, entered with the buffer as it
\* is: the flag is cleared, then the buffer is force-set when it differs.
Finally(a, nc, outcome, didThrow) ==
  LET force == FinallyForces(editor, buffer, nc)
  IN /\ isAnimating' = FlagAfterFinally
     /\ buffer' = IF force THEN nc ELSE buffer
     /\ sel' = IF force THEN Caret0 ELSE sel
     /\ ap' = [ap EXCEPT ![a].pc = outcome, ![a].newContent = nc, ![a].started = TRUE]
     /\ ev' = [src |-> IF force THEN "force" ELSE "none", anim |-> FALSE,
               emit |-> force /\ OnDidChangeContent(FALSE, nc, contentInput),
               wrote |-> FALSE, fin |-> a, threw |-> didThrow]
     /\ UNCHANGED <<editor, contentInput>>

\* applyChangesWithAnimation(nc) up to its first await.
ApplyStart(a, nc) ==
  /\ ap[a].pc = "idle"
  /\ IF editor # "ready"
     THEN /\ ap' = [ap EXCEPT ![a].pc = "resolved", ![a].newContent = nc]
          /\ ev' = [NoEv EXCEPT !.fin = a]
          /\ UNCHANGED <<editor, buffer, sel, isAnimating, contentInput>>
     ELSE IF buffer = nc
     THEN Finally(a, nc, "resolved", FALSE)
     ELSE LET d == Diff(buffer, nc)
              r == MkRange(PositionAt(buffer, d.prefixLen),
                           PositionAt(buffer, Len(buffer) - d.suffixLen))
          IN /\ isAnimating' = TRUE
             /\ sel' = RangeOffsets(buffer, r)
             /\ ap' = [ap EXCEPT ![a] = [pc |-> "selected", started |-> TRUE,
                         newContent |-> nc, range |-> r, text |-> d.textToInsert,
                         i |-> 0, ops |-> <<[op |-> "select", i |-> 0]>>,
                         over |-> \E b \in ApplyIds : ap[b].pc \in Running]]
             /\ ev' = NoEv
             /\ UNCHANGED <<editor, buffer, contentInput>>
  /\ UNCHANGED <<dvars, userActs, avars, kvars>>

\* The 300 ms timer fires: the delete edit, then the 200 ms timer is set.
AfterSelectPause(a) ==
  /\ ap[a].pc = "selected"
  /\ IF editor # "ready"
     THEN Finally(a, ap[a].newContent, "rejected", TRUE)
     ELSE LET o == RangeOffsets(buffer, ap[a].range)
              nb == ApplyEdit(buffer, ap[a].range, <<>>)
          IN /\ buffer' = nb
             /\ sel' = SelAfterDelete(sel, o.from, o.to)
             /\ ap' = [ap EXCEPT ![a].pc = "deleted",
                         ![a].ops = Append(@, [op |-> "delete", i |-> 0])]
             /\ ev' = [src |-> IF nb # buffer THEN "delete" ELSE "none",
                       anim |-> isAnimating,
                       emit |-> nb # buffer /\ OnDidChangeContent(isAnimating, nb, contentInput),
                       wrote |-> FALSE, fin |-> 0, threw |-> FALSE]
             /\ UNCHANGED <<editor, isAnimating, contentInput>>
  /\ UNCHANGED <<dvars, userActs, avars, kvars>>

\* One run of the closure type() of typeTextAnimated for call a: an insert of
\* text[i] at the caret and a 15 ms timer, or resolve() at the end of the
\* text. inTimer tells a run from a timer callback from the first run, which
\* the promise executor makes: an exception in the executor rejects the
\* promise, one in a timer callback is lost and the promise stays pending.
TypeRun(a, inTimer) ==
  IF ~TypingDone(ap[a].i, ap[a].text)
  THEN IF editor # "ready"
       THEN IF inTimer
            THEN /\ ap' = [ap EXCEPT ![a].pc = "hung"]
                 /\ ev' = [NoEv EXCEPT !.threw = TRUE]
                 /\ UNCHANGED <<editor, buffer, sel, isAnimating, contentInput>>
            ELSE Finally(a, ap[a].newContent, "rejected", TRUE)
       ELSE LET char == ap[a].text[ap[a].i + 1]
                pos == PositionAt(buffer, sel.to)
                r == MkRange(pos, pos)
                x == RangeOffsets(buffer, r).from
                nb == ApplyEdit(buffer, r, <<char>>)
            IN /\ buffer' = nb
               /\ sel' = SelAfterInsert(sel, x, 1)
               /\ ap' = [ap EXCEPT ![a].pc = "typing", ![a].i = @ + 1,
                           ![a].ops = Append(@, [op |-> "insert", i |-> ap[a].i])]
               /\ ev' = [src |-> "type", anim |-> isAnimating,
                         emit |-> OnDidChangeContent(isAnimating, nb, contentInput),
                         wrote |-> FALSE, fin |-> 0, threw |-> FALSE]
               /\ UNCHANGED <<editor, isAnimating, contentInput>>
  ELSE Finally(a, ap[a].newContent, "resolved", FALSE)

\* The 200 ms timer fires: typeTextAnimated(textToInsert) is called and awaited.
AfterDeletePause(a) ==
  /\ ap[a].pc = "deleted"
  /\ TypeRun(a, FALSE)
  /\ UNCHANGED <<dvars, userActs, avars, kvars>>

\* A 15 ms timer fires: the next run of type().
TypeTick(a) ==
  /\ ap[a].pc = "typing"
  /\ TypeRun(a, TRUE)
  /\ UNCHANGED <<dvars, userActs, avars, kvars>>

NextEditor ==
  \/ InitEditor
  \/ NgOnDestroy
  \/ \E c \in InputTexts : SetContent(c)
  \/ \E c \in EdChars : UserType(c)
  \/ UserBackspace
  \/ \E o \in 0..(2 * MaxText) : UserMoveCaret(o)
  \/ \E a \in EditorCalls : \E nc \in Texts : ApplyStart(a, nc)
  \/ \E a \in EditorCalls : AfterSelectPause(a)
  \/ \E a \in EditorCalls : AfterDeletePause(a)
  \/ \E a \in EditorCalls : TypeTick(a)

SpecEditor == InitEditorSpec /\ [][NextEditor]_vars

Settled == {"resolved", "rejected"}

C4_ThrowClearsFlag ==
  ev.threw => ~isAnimating

\* C5: every call of applyChangesWithAnimation eventually settles, provided
\* the timers fire, also when a step throws or the editor is disposed. Only
\* a timer of the call can advance it, so: a call that has been made and has
\* not settled has a timer pending.
TimerPending == {"selected", "deleted", "typing"}

C5_UnsettledHasTimer ==
  \A a \in ApplyIds :
    ap[a].pc \notin ({"idle"} \cup Settled) => ap[a].pc \in TimerPending

\* C6: while isAnimating is set, no buffer change notification leads to a
\* contentChange emission, and no change of the content input is written
\* into the buffer.
C6_SuppressedWhileAnimating ==
  /\ ev.emit => ~ev.anim
  /\ ev.wrote => ~ev.anim

\* A user edit during an animation left the buffer different from content(),
\* and nothing was emitted.
C6_Witness ==
  /\ ev.src = "user"
  /\ ev.anim
  /\ isAnimating
  /\ buffer # contentInput
  /\ ~ev.emit

\* C7: no buffer mutation of the applier itself (the delete edit, a typed
\* character, the force-set of the finally block) is emitted as contentChange.
C7_ApplierEditsNotEmitted ==
  ev.src \in {"delete", "type", "force"} => ~ev.emit

\* The operations of a call that selects, deletes and types n characters.
RECURSIVE Inserts(_)
Inserts(n) ==
  IF n = 0 THEN <<>> ELSE Append(Inserts(n - 1), [op |-> "insert", i |-> n - 1])

ExpectedOps(n) ==
  <<[op |-> "select", i |-> 0], [op |-> "delete", i |-> 0]>> \o Inserts(n)

IsPrefix(s, t) == Len(s) <= Len(t) /\ SubSeq(t, 1, Len(s)) = s

\* C8: in every apply that is not a no-op and in which no step throws, the
\* buffer operations are one selection, then exactly one delete edit, then
\* exactly len(textToInsert) inserts in index order; no insert precedes the
\* delete and the call resolves only after the last insert.
C8_OperationOrder ==
  \A a \in ApplyIds :
    /\ IsPrefix(ap[a].ops, ExpectedOps(Len(ap[a].text)))
    /\ (ap[a].pc = "resolved" /\ ap[a].ops # <<>>) =>
         ap[a].ops = ExpectedOps(Len(ap[a].text))

C8_Witness ==
  \E a \in ApplyIds :
    /\ ap[a].pc = "resolved"
    /\ Len(ap[a].text) = 2
    /\ ap[a].ops = ExpectedOps(2)
    /\ ap[a].range.startPos # ap[a].range.endPos

\* ------------------------------------- specification of the application
\* onMessage: whether the event's source passes the check against
\* previewIframe.nativeElement.contentWindow.
AcceptsAnySource(source) == TRUE

AcceptsSource(source) == source = IframeWindow

\* onMessage: the store after an accepted message, [...logs, payload].
AppendLogFirst(logs, payload) == <<payload>> \o logs

AppendLog(logs, payload) == Append(logs, payload)

InitApp ==
  /\ DiffIdle
  /\ EditorIdle
  /\ AppIdle
  /\ AskIdle

\* The first change detection sets the view queries: previewIframe is defined.
ViewInit ==
  /\ ~previewIframe
  /\ previewIframe' = TRUE
  /\ aev' = NoAev
  /\ UNCHANGED <<files, openFiles, activeFile, consoleLogs, debounced, iframeSrcDoc>>
  /\ UNCHANGED <<timer, sinceChange>>
  /\ UNCHANGED <<dvars, evars, kvars>>

\* onMessage(event), the listener of window:message. Before the view
\* queries are set, reading previewIframe.nativeElement throws; a message
\* of the preview's window can only come once the iframe exists.
OnMessage(source, type, payload) ==
  /\ source = IframeWindow => previewIframe
  /\ Len(consoleLogs) < MaxLogs
  /\ consoleLogs' =
       IF previewIframe /\ AcceptsSource(source) /\ type = "CONSOLE_LOG"
       THEN AppendLog(consoleLogs, payload)
       ELSE consoleLogs
  /\ aev' = [op |-> "message", source |-> source, type |-> type,
             payload |-> payload, prev |-> consoleLogs, newDoc |-> FALSE]
  /\ UNCHANGED <<files, openFiles, activeFile, previewIframe, debounced, iframeSrcDoc>>
  /\ UNCHANGED <<timer, sinceChange>>
  /\ UNCHANGED <<dvars, evars, kvars>>

\* debounceTime: a value of the files signal ends the running timer and
\* starts a new one.
KeepTimer(t) == t

RestartTimer(t) == 0

\* updateFileContent(fileName, newContent) on the collection fs.
UpdateOrAddFile(fs, fileName, newContent) ==
  IF \E k \in 1..Len(fs) : fs[k].name = fileName
  THEN [k \in 1..Len(fs) |->
          IF fs[k].name = fileName THEN [fs[k] EXCEPT !.content = newContent] ELSE fs[k]]
  ELSE Append(fs, [name |-> fileName, content |-> newContent, language |-> ""])

UpdateFileContent(fs, fileName, newContent) ==
  [k \in 1..Len(fs) |->
     IF fs[k].name = fileName THEN [fs[k] EXCEPT !.content = newContent] ELSE fs[k]]

\* setActiveFile(file): the user opens a file of the explorer.
SetActiveFile(k) ==
  /\ k \in 1..Len(files)
  /\ activeFile # files[k]
  /\ openFiles' = IF \E j \in 1..Len(openFiles) : openFiles[j].name = files[k].name
                  THEN openFiles ELSE Append(openFiles, files[k])
  /\ activeFile' = files[k]
  /\ aev' = NoAev
  /\ UNCHANGED <<files, previewIframe, consoleLogs, debounced, iframeSrcDoc>>
  /\ UNCHANGED <<timer, sinceChange>>
  /\ UNCHANGED <<dvars, evars, kvars>>

\* updateActiveFileContent(newContent), the handler of the editor's
\* contentChange: the files signal gets a new array, which restarts the
\* debounce timer with it.
UpdateActiveFileContent(newContent) ==
  /\ activeFile # NoFile
  /\ files' = UpdateFileContent(files, activeFile.name, newContent)
  /\ debounced' = files'
  /\ timer' = RestartTimer(timer)
  /\ sinceChange' = 0
  /\ aev' = [NoAev EXCEPT !.op = "edit"]
  /\ UNCHANGED <<openFiles, activeFile, previewIframe, consoleLogs, iframeSrcDoc>>
  /\ UNCHANGED <<dvars, evars, kvars>>

\* forcePreviewRefresh: files.update(f => [...f]) and consoleLogs.set([]).
ForcePreviewRefresh ==
  /\ files' = files
  /\ debounced' = files
  /\ timer' = RestartTimer(timer)
  /\ sinceChange' = 0
  /\ consoleLogs' = <<>>
  /\ aev' = [NoAev EXCEPT !.op = "refresh", !.prev = consoleLogs]
  /\ UNCHANGED <<openFiles, activeFile, previewIframe, iframeSrcDoc>>
  /\ UNCHANGED <<dvars, evars, kvars>>

\* The debounce timer (300 ms) fires: map(files => buildIframeContent(files))
\* produces the sandbox document from the files value the timer holds.
DebounceFire ==
  /\ debounced # NoPending
  /\ timer >= DebounceTime
  /\ iframeSrcDoc' = BuildIframeContent(debounced)
  /\ debounced' = NoPending
  /\ timer' = 0
  /\ aev' = [NoAev EXCEPT !.op = "rebuild", !.prev = consoleLogs,
                           !.newDoc = (iframeSrcDoc' # iframeSrcDoc)]
  /\ UNCHANGED <<files, openFiles, activeFile, previewIframe, consoleLogs, sinceChange>>
  /\ UNCHANGED <<dvars, evars, kvars>>

\* Time passes by TickMs while the debounce timer runs.
Tick ==
  /\ debounced # NoPending
  /\ timer < DebounceTime
  /\ timer' = Min(timer + TickMs, DebounceTime)
  /\ sinceChange' = Min(sinceChange + TickMs, DebounceTime)
  /\ aev' = NoAev
  /\ UNCHANGED <<files, openFiles, activeFile, previewIframe, consoleLogs, debounced,
                 iframeSrcDoc>>
  /\ UNCHANGED <<dvars, evars, kvars>>

NextApp ==
  \/ ViewInit
  \/ \E src \in Sources : \E t \in MsgTypes : \E pl \in Payloads : OnMessage(src, t, pl)
  \/ \E k \in 1..Len(files) : SetActiveFile(k)
  \/ \E c \in EditTexts : UpdateActiveFileContent(c)
  \/ ForcePreviewRefresh
  \/ Tick
  \/ DebounceFire

SpecApp == InitApp /\ [][NextApp]_vars

\* C9: a CONSOLE_LOG message whose source is the preview iframe's content
\* window appends exactly one entry to the console log store; a message of
\* any other source leaves the store unchanged, whatever its content.
C9_OnlyIframeAppends ==
  aev.op = "message" =>
    /\ (aev.source = IframeWindow /\ aev.type = "CONSOLE_LOG") =>
         consoleLogs = Append(aev.prev, aev.payload)
    /\ aev.source # IframeWindow => consoleLogs = aev.prev

\* The warn message of the preview's window was appended to a store that
\* held an entry.
C9_Witness ==
  /\ aev.op = "message"
  /\ aev.source = IframeWindow
  /\ aev.type = "CONSOLE_LOG"
  /\ aev.payload.type = "warn"
  /\ Len(aev.prev) = 1
  /\ Len(consoleLogs) = 2
  /\ consoleLogs[2].type = "warn"

\* C10: every time the sandbox document is rebuilt (a new iframeSrcDoc value
\* is produced after a change of the file collection), the console log store
\* is empty immediately after the rebuild.
C10_RebuildClearsLogs ==
  (aev.op = "rebuild" /\ aev.newDoc) => consoleLogs = <<>>

\* A well-formed ConsoleLog: a kind of the five, a data sequence, a timestamp.
WellFormedLog(p) ==
  /\ p.type \in LogKinds
  /\ p.data \in Seq({"x"})
  /\ p.timestamp # ""

\* C11: every entry of the console log store is a well-formed ConsoleLog; a
\* message of the preview's window whose payload is not one adds nothing.
C11_EntriesWellFormed ==
  \A k \in 1..Len(consoleLogs) : WellFormedLog(consoleLogs[k])

\* C12: between two clears the console log store is the sequence of the
\* payloads of the accepted CONSOLE_LOG messages in their order of arrival:
\* an accepted message appends its payload at the end, and every other step
\* leaves the store as it is or empties it.
C12_AppendOnly ==
  [][IF /\ aev'.op = "message"
        /\ aev'.source = IframeWindow
        /\ aev'.type = "CONSOLE_LOG"
     THEN consoleLogs' = Append(consoleLogs, aev'.payload)
     ELSE \/ consoleLogs' = consoleLogs
          \/ aev'.op = "refresh" /\ consoleLogs' = <<>>]_vars

\* Two different payloads were accepted since the last clear and the store
\* holds them in their order of arrival.
C12_Witness ==
  /\ aev.op = "message"
  /\ Len(aev.prev) = 1
  /\ aev.prev[1].type = "log"
  /\ aev.payload.type = "warn"
  /\ consoleLogs = <<aev.prev[1], aev.payload>>

\* C13: in a burst of changes of the file collection, each less than
\* DebounceTime after the one before, there is no rebuild during the burst:
\* a rebuild happens only when DebounceTime has passed since the last change,
\* it is computed from the file collection as of that change, and it leaves
\* no second rebuild pending; every change restarts the timer with the new
\* collection, so that a rebuild is pending whenever the sandbox document
\* is not the one of the file collection.
C13_DebouncedRebuild ==
  /\ aev.op = "rebuild" =>
        /\ sinceChange >= DebounceTime
        /\ iframeSrcDoc = BuildIframeContent(files)
        /\ debounced = NoPending
  /\ aev.op \in {"edit", "refresh"} => (timer = 0 /\ debounced = files)
  /\ iframeSrcDoc # BuildIframeContent(files) => debounced = files

\* A burst of two edits, the second one made while the timer of the first
\* was running, was followed by one rebuild, which produced the document of
\* the collection as the second edit left it.
C13_Witness ==
  /\ aev.op = "rebuild"
  /\ aev.newDoc
  /\ files[1].content = <<>>
  /\ files[2].content = <<"a">>
  /\ iframeSrcDoc.body = <<>>
  /\ iframeSrcDoc.style = <<"a">>

\* --------------------------------------- specification of the assistant
InitAsk ==
  /\ DiffIdle
  /\ EditorIdle
  /\ AppIdle
  /\ AskIdle

\* setActiveFile: the open files after the file f has been made active.
WithOpened(ofs, f) ==
  IF \E n \in 1..Len(ofs) : ofs[n].name = f.name THEN ofs ELSE Append(ofs, f)

\* "if (this.editorComponent)": the view query holds the editor component
\* until the component is destroyed.
EditorComponentPresent == editor # "disposed"

\* askAI up to the await of getCodeModification. Invocations are numbered
\* in the order in which they are made.
AskAI(i, prompt) ==
  /\ ask[i].pc = "idle"
  /\ \A j \in AskIds : j < i => ask[j].pc # "idle"
  /\ IF IsBlank(prompt)
     THEN UNCHANGED <<kvars, aev>>
     ELSE /\ isAiLoading' = TRUE
          /\ isAiApplyingEdits' = FALSE
          /\ aiExplanation' = <<>>
          /\ aiError' = ""
          /\ ask' = [ask EXCEPT ![i].pc = "calling",
                                ![i].cur = [l \in Langs |-> FindLang(files, l, 1)]]
          /\ aev' = [NoAev EXCEPT !.op = "ask"]
  /\ UNCHANGED <<files, openFiles, activeFile, previewIframe, consoleLogs, debounced,
                 iframeSrcDoc, timer, sinceChange>>
  /\ UNCHANGED <<dvars, evars>>

\* The for loop of invocation i from job k on, rec being the state of the
\* invocation and fs the file collection: the first job whose file exists is
\* made the active file and the 50 ms timer is set; when no job is left the
\* explanation is set and the finally block runs. entering tells the entry
\* into the loop, where the flags are set, from a later iteration.
AskLoop(i, rec, fs, k, entering) ==
  LET j == NextJob(fs, rec.diffs, k)
  IN IF j <= Len(rec.diffs)
     THEN LET f == FindName(fs, rec.diffs[j].fileName, 1)
          IN /\ openFiles' = WithOpened(openFiles, f)
             /\ activeFile' = f
             /\ ask' = [ask EXCEPT ![i] = [rec EXCEPT !.pc = "yield", !.k = j]]
             /\ isAiLoading' = IF entering THEN FALSE ELSE isAiLoading
             /\ isAiApplyingEdits' = IF entering THEN TRUE ELSE isAiApplyingEdits
             /\ UNCHANGED <<aiExplanation, aiError>>
     ELSE /\ ask' = [ask EXCEPT ![i] = [rec EXCEPT !.pc = "done"]]
          /\ aiExplanation' = rec.resp.explanation
          /\ isAiLoading' = FALSE
          /\ isAiApplyingEdits' = FALSE
          /\ UNCHANGED <<openFiles, activeFile, aiError>>

\* getCodeModification resolves with the response r: the jobs are queued
\* and the loop is entered, or the explanation is set with the note.
AskResponse(i, r) ==
  /\ ask[i].pc = "calling"
  /\ LET ds == Diffs(ask[i].cur, r)
         rec == [ask[i] EXCEPT !.resp = r, !.diffs = ds]
     IN IF ds # <<>>
        THEN AskLoop(i, rec, files, 1, TRUE)
        ELSE /\ ask' = [ask EXCEPT ![i] = [rec EXCEPT !.pc = "done"]]
             /\ aiExplanation' = r.explanation \o NoChangesNote
             /\ isAiLoading' = FALSE
             /\ isAiApplyingEdits' = FALSE
             /\ UNCHANGED <<openFiles, activeFile, aiError>>
  /\ aev' = [NoAev EXCEPT !.op = "response"]
  /\ UNCHANGED <<files, previewIframe, consoleLogs, debounced, iframeSrcDoc, timer,
                 sinceChange>>
  /\ UNCHANGED <<dvars, evars>>

\* getCodeModification rejects with the error that handleError throws: the
\* catch block and the finally block run.
AskReject(i, kind) ==
  /\ ask[i].pc = "calling"
  /\ aiError' = CatchMessage(HandleError(kind))
  /\ isAiLoading' = FALSE
  /\ isAiApplyingEdits' = FALSE
  /\ ask' = [ask EXCEPT ![i].pc = "done", ![i].error = TRUE]
  /\ aev' = [NoAev EXCEPT !.op = "askFail"]
  /\ UNCHANGED aiExplanation
  /\ UNCHANGED <<files, openFiles, activeFile, previewIframe, consoleLogs, debounced,
                 iframeSrcDoc, timer, sinceChange>>
  /\ UNCHANGED <<dvars, evars>>

\* updateFileContent(diff.fileName, diff.after) for the current job of
\* invocation i, and the rest of the loop.
AskCommit(i) ==
  LET job == ask[i].diffs[ask[i].k]
      fs == UpdateFileContent(files, job.fileName, job.after)
      rec == [ask[i] EXCEPT !.committed = Append(@, ask[i].k)]
  IN /\ files' = fs
     /\ debounced' = fs
     /\ timer' = RestartTimer(timer)
     /\ sinceChange' = 0
     /\ AskLoop(i, rec, fs, ask[i].k + 1, FALSE)

\* The 50 ms timer of invocation i fires: with an editor component,
\* applyChangesWithAnimation is called next; without one the job is committed.
AskAfterYield(i) ==
  /\ ask[i].pc = "yield"
  /\ IF EditorComponentPresent
     THEN /\ ask' = [ask EXCEPT ![i].pc = "invoking",
                                ![i].applied = Append(@, activeFile.name)]
          /\ UNCHANGED <<files, openFiles, activeFile, debounced, timer, sinceChange>>
          /\ UNCHANGED <<isAiLoading, isAiApplyingEdits, aiExplanation, aiError>>
     ELSE AskCommit(i)
  /\ aev' = [NoAev EXCEPT !.op = "job"]
  /\ UNCHANGED <<previewIframe, consoleLogs, iframeSrcDoc>>
  /\ UNCHANGED <<dvars, evars>>

\* The promise of applyChangesWithAnimation has settled and askAI goes on:
\* after a resolve with the commit and the rest of the loop, after a reject
\* in the catch block and the finally block.
AskResume(i) ==
  /\ ask[i].pc = "invoking"
  /\ ap[i].pc \in {"resolved", "rejected"}
  /\ ap' = [ap EXCEPT ![i] = IdleApply]
  /\ ev' = NoEv
  /\ IF ap[i].pc = "resolved"
     THEN AskCommit(i)
     ELSE /\ aiError' = CatchMessage(TypeErrorMessage)
          /\ isAiLoading' = FALSE
          /\ isAiApplyingEdits' = FALSE
          /\ ask' = [ask EXCEPT ![i].pc = "done", ![i].failed = ask[i].k,
                                ![i].error = TRUE]
          /\ UNCHANGED aiExplanation
          /\ UNCHANGED <<files, openFiles, activeFile, debounced, timer, sinceChange>>
  /\ aev' = [NoAev EXCEPT !.op = "job"]
  /\ UNCHANGED <<previewIframe, consoleLogs, iframeSrcDoc>>
  /\ UNCHANGED <<editor, buffer, sel, isAnimating, contentInput, userActs>>
  /\ UNCHANGED dvars

\* A continuation that runs before any other event: the call of
\* applyChangesWithAnimation in the callback of the 50 ms timer, and the rest
\* of askAI once the promise has settled.
Urgent(i) == ask[i].pc = "invoking" /\ ap[i].pc \in {"idle", "resolved", "rejected"}

NoUrgent == \A i \in AskIds : ~Urgent(i)

NextAsk ==
  \/ \E i \in AskIds :
       ask[i].pc = "invoking" /\ ApplyStart(i, ask[i].diffs[ask[i].k].after)
  \/ \E i \in AskIds : AskResume(i)
  \/ NoUrgent /\ InitEditor
  \/ NoUrgent /\ NgOnDestroy
  \/ NoUrgent /\ \E k \in 1..Len(files) : SetActiveFile(k)
  \/ NoUrgent /\ \E i \in AskIds : \E p \in Prompts : AskAI(i, p)
  \/ NoUrgent /\ \E i \in AskIds : \E r \in Responses : AskResponse(i, r)
  \/ NoUrgent /\ \E i \in AskIds : \E kind \in FailKinds : AskReject(i, kind)
  \/ NoUrgent /\ \E i \in AskIds : AskAfterYield(i)
  \/ NoUrgent /\ \E i \in AskIds : ask[i].pc = "invoking" /\ AfterSelectPause(i)
  \/ NoUrgent /\ \E i \in AskIds : ask[i].pc = "invoking" /\ AfterDeletePause(i)
  \/ NoUrgent /\ \E i \in AskIds : ask[i].pc = "invoking" /\ TypeTick(i)

SpecAsk == InitAsk /\ [][NextAsk]_vars

\* C14: for each of html, css and js, askAI queues a job for the language
\* if and only if the response carries a patch for it (any text, the empty
\* text included) that differs from the current content of the first file of
\* that language; the jobs are queued in the order html, css, js.
C14_QueueIffPatchDiffers ==
  \A i \in AskIds :
    ask[i].pc \notin {"idle", "calling"} =>
      LET r == ask[i].resp
          cur == ask[i].cur
          Claimed(lang) ==
            IF Patch(r, lang) # Absent /\ Patch(r, lang) # ContentOf(cur[lang])
            THEN <<Patch(r, lang)>> ELSE <<>>
      IN [n \in 1..Len(ask[i].diffs) |-> ask[i].diffs[n].after]
           = Claimed("html") \o Claimed("css") \o Claimed("js")

\* C15: given a response that carries only a css patch, which differs from
\* the current css content, exactly one animated apply is invoked and it is
\* for the css file; the contents of the html and js files are unchanged; and
\* when askAI has finished, the content of the css file is the css field of
\* the response.
C15_CssOnlyPatch ==
  \A i \in AskIds :
    LET r == ask[i].resp
        cur == ask[i].cur
    IN (/\ ask[i].pc = "done"
        /\ r.html = Absent
        /\ r.js = Absent
        /\ r.css # Absent
        /\ cur["css"] # NoFile
        /\ r.css # cur["css"].content) =>
         /\ ask[i].applied = <<cur["css"].name>>
         /\ ContentOf(FindLang(files, "html", 1)) = ContentOf(cur["html"])
         /\ ContentOf(FindLang(files, "js", 1)) = ContentOf(cur["js"])
         /\ FindName(files, cur["css"].name, 1).content = r.css

\* C16: for every queued job whose target file exists, once askAI has
\* finished the content of the file in the file collection is the job's new
\* content, whether the animated apply of the job completed, was skipped for
\* want of an editor component, or failed with an exception.
C16_CommittedWhateverTheApply ==
  \A i \in AskIds :
    ask[i].pc = "done" =>
      \A n \in 1..Len(ask[i].diffs) :
        LET f == FindName(files, ask[i].diffs[n].fileName, 1)
        IN f # NoFile => f.content = ask[i].diffs[n].after

\* C17: if the application of job k of the queue throws, every later job of
\* the same response is still attempted: made active, applied, committed.
C17_LaterJobsAttempted ==
  \A i \in AskIds :
    (ask[i].pc = "done" /\ ask[i].failed > 0) =>
      \A n \in (ask[i].failed + 1)..Len(ask[i].diffs) :
        \E m \in 1..Len(ask[i].committed) : ask[i].committed[m] = n

\* C18: if the call of getCodeModification made by askAI fails, no file is
\* touched: neither the step that makes the call nor the step that handles
\* its failure changes the file collection, the open files, the active file
\* or the editor buffer; the invocation invokes no animated apply; aiError
\* holds one message of handleError; and the invocation leaves aiExplanation
\* as the empty text it set at the start (it is empty unless another
\* invocation that got a response has set it).
C18_FailedCallTouchesNothing ==
  [][\A i \in AskIds :
       /\ (ask[i].pc = "idle" /\ ask'[i].pc = "calling") =>
            /\ UNCHANGED <<files, openFiles, activeFile, buffer>>
            /\ aiExplanation' = <<>>
       /\ (ask[i].pc = "calling" /\ ask'[i].pc = "done" /\ ask'[i].error) =>
            /\ UNCHANGED <<files, openFiles, activeFile, buffer, ap>>
            /\ ask'[i].applied = <<>>
            /\ aiError' \in ErrorMessages
            /\ aiExplanation' = aiExplanation
            /\ (\A j \in AskIds \ {i} : ask[j].resp = NoResponse) =>
                 aiExplanation' = <<>>]_vars

\* The call of an invocation has failed while the editor was initialised:
\* the message is shown and the explanation is empty.
C18_Witness ==
  \E i \in AskIds :
    /\ aev.op = "askFail"
    /\ ask[i].pc = "done"
    /\ ask[i].error
    /\ ask[i].failed = 0
    /\ ask[i].applied = <<>>
    /\ editor = "ready"
    /\ aiError = HandleError("JSON")
    /\ aiExplanation = <<>>
    /\ ~isAiLoading
    /\ files = DefaultFiles

\* C19: at every moment at most one animated apply is in flight against the
\* editor buffer: within one askAI the apply of job k+1 starts only after the
\* apply of job k has resolved, and no interleaving of invocations of askAI
\* by the user with other events starts a second apply while one is running.
C19_OneApplyInFlight ==
  Cardinality({a \in ApplyIds : ap[a].pc \in TimerPending}) <= 1

\* C20: from the start of the animated apply of a job until it resolves, the
\* active file is the file of the job, whatever the user does during the
\* 50 ms yield and the pauses of the animation.
C20_ActiveFileIsJobFile ==
  \A i \in AskIds :
    (ask[i].pc = "invoking" /\ ap[i].pc \in TimerPending) =>
      activeFile.name = ask[i].diffs[ask[i].k].fileName

\* --------------------------- specification of overlapping animated applies
\* Two calls of applyChangesWithAnimation on one editor, each made at any
\* moment, the second one possibly while the first is in flight.
NextOverlap ==
  \/ InitEditor
  \/ NgOnDestroy
  \/ \E a \in ApplyIds : \E nc \in Texts : ApplyStart(a, nc)
  \/ \E a \in ApplyIds : AfterSelectPause(a)
  \/ \E a \in ApplyIds : AfterDeletePause(a)
  \/ \E a \in ApplyIds : TypeTick(a)

SpecOverlap == InitEditorSpec /\ [][NextOverlap]_vars

MaxFileOps == 3

SUPPORTED_EXTENSIONS ==
  {"html", "css", "js", "ts", "json", "md", "scss", "xml", "svg", "txt", "yaml"}

\* name.split('.') for the file names of the model.
Split(name) ==
  CASE name = "index.html" -> <<"index", "html">>
    [] name = "style.css" -> <<"style", "css">>
    [] name = "script.js" -> <<"script", "js">>
    [] name = "b.css" -> <<"b", "css">>
    [] name = "data.exe" -> <<"data", "exe">>
    [] OTHER -> <<name>>

\* name.split('.').pop()
Pop(name) == Split(name)[Len(Split(name))]

\* fileName.match(SUPPORTED_EXTENSIONS_REGEX): the name ends in a dot and a
\* supported extension.
MatchesExtensionsRegex(name) ==
  Len(Split(name)) >= 2 /\ Pop(name) \in SUPPORTED_EXTENSIONS

\* SUPPORTED_EXTENSIONS.includes(language), language being the last segment.
IncludesLanguage(name) == Pop(name) \in SUPPORTED_EXTENSIONS

\* newFileName().trim()
Trim(typed) == IF typed = " " THEN "" ELSE typed

\* The names typed into the new-file field, the names of uploaded files and
\* the texts of uploaded files.
TypedNames == {" ", "b.css", "html", "data.exe", "style.css"}
UploadNames == {"style.css", "html", "data.exe"}
UploadTexts == {<<"b">>}
\* The text the user leaves in the editor of the active file: none.
FileEditTexts == {<<>>}

\* files.some(f => f.name === name)
NameFree(fs, name) == TRUE

NameTaken(fs, name) == \E k \in 1..Len(fs) : fs[k].name = name

\* files.filter(f => f.name !== name)
WithoutNameKept(fs, name) == fs

WithoutName(fs, name) == SelectSeq(fs, LAMBDA f : f.name # name)

\* openFiles.findIndex(f => f.name === name), counted from 1; 0 for -1.
RECURSIVE IndexOfName(_, _, _)
IndexOfName(ofs, name, k) ==
  IF k > Len(ofs) THEN 0
  ELSE IF ofs[k].name = name THEN k
  ELSE IndexOfName(ofs, name, k + 1)

\* closeFile: Math.min(currentIndex, newOpenFiles.length - 1), counted from 1.
NewIndexFirst(currentIndex, newLength) == 1

NewIndex(currentIndex, newLength) == Min(currentIndex, newLength)

\* closeFile: the active file after the file of the given name was closed.
ActiveAfterCloseKept(af, ofs, name) == af

ActiveAfterClose(af, ofs, name) ==
  LET currentIndex == IndexOfName(ofs, name, 1)
      newOpenFiles == WithoutName(ofs, name)
  IN IF af # NoFile /\ af.name = name
     THEN IF Len(newOpenFiles) = 0 THEN NoFile
          ELSE newOpenFiles[NewIndex(currentIndex, Len(newOpenFiles))]
     ELSE af

\* deleteFile: whether closeFile is called for the file.
DeleteNeverCloses(ofs, name) == FALSE

DeleteCloses(ofs, name) == NameTaken(ofs, name)

\* The files signal got the value fs: the debounce timer restarts with it.
FilesSet(fs) ==
  /\ files' = fs
  /\ debounced' = fs
  /\ timer' = RestartTimer(timer)
  /\ sinceChange' = 0

FilesKept == UNCHANGED <<files, debounced, timer, sinceChange>>

\* An operation of the user on the files is counted; the editor is left alone.
FileOpCounted ==
  /\ userActs < MaxFileOps
  /\ userActs' = userActs + 1
  /\ UNCHANGED <<editor, buffer, sel, isAnimating, contentInput, ap, ev>>

\* confirmCreateFile: the three early returns.
CreateRejectsUnlessTaken(fs, fileName) ==
  fileName = "" \/ ~MatchesExtensionsRegex(fileName)

CreateRejects(fs, fileName) ==
  \/ fileName = ""
  \/ ~MatchesExtensionsRegex(fileName)
  \/ NameTaken(fs, fileName)

\* confirmCreateFile with the text typed into the new-file field.
ConfirmCreateFile(typed) ==
  LET fileName == Trim(typed)
      newFile == [name |-> fileName, content |-> <<>>, language |-> Pop(fileName)]
  IN /\ IF CreateRejects(files, fileName)
        THEN FilesKept /\ UNCHANGED <<openFiles, activeFile>>
        ELSE /\ FilesSet(Append(files, newFile))
             /\ openFiles' = WithOpened(openFiles, newFile)
             /\ activeFile' = newFile
     /\ aev' = NoAev
     /\ UNCHANGED <<previewIframe, consoleLogs, iframeSrcDoc>>
     /\ FileOpCounted
     /\ UNCHANGED <<dvars, kvars>>

\* reader.onload of handleFileUpload for a file of the given name and
\* content; confirmed is the answer to the overwrite question.
FileLoaded(name, content, confirmed) ==
  LET exists == NameTaken(files, name)
      kept == IF exists THEN WithoutName(files, name) ELSE files
      newFile == [name |-> name, content |-> content, language |-> Pop(name)]
  IN /\ IF exists /\ ~confirmed
        THEN FilesKept /\ UNCHANGED <<openFiles, activeFile>>
        ELSE IF ~IncludesLanguage(name)
        THEN /\ IF kept # files THEN FilesSet(kept) ELSE FilesKept
             /\ UNCHANGED <<openFiles, activeFile>>
        ELSE /\ FilesSet(Append(kept, newFile))
             /\ openFiles' = WithOpened(openFiles, newFile)
             /\ activeFile' = newFile
     /\ aev' = NoAev
     /\ UNCHANGED <<previewIframe, consoleLogs, iframeSrcDoc>>
     /\ FileOpCounted
     /\ UNCHANGED <<dvars, kvars>>

\* closeFile(openFiles[k]): the user closes a tab.
CloseFile(k) ==
  /\ k \in 1..Len(openFiles)
  /\ activeFile' = ActiveAfterClose(activeFile, openFiles, openFiles[k].name)
  /\ openFiles' = WithoutName(openFiles, openFiles[k].name)
  /\ aev' = NoAev
  /\ FilesKept
  /\ UNCHANGED <<previewIframe, consoleLogs, iframeSrcDoc>>
  /\ FileOpCounted
  /\ UNCHANGED <<dvars, kvars>>

\* deleteFile(files[k]); confirmed is the answer to the question.
DeleteFile(k, confirmed) ==
  /\ k \in 1..Len(files)
  /\ IF ~confirmed
     THEN FilesKept /\ UNCHANGED <<openFiles, activeFile>>
     ELSE /\ IF DeleteCloses(openFiles, files[k].name)
             THEN /\ activeFile' = ActiveAfterClose(activeFile, openFiles, files[k].name)
                  /\ openFiles' = WithoutName(openFiles, files[k].name)
             ELSE UNCHANGED <<openFiles, activeFile>>
          /\ FilesSet(WithoutName(files, files[k].name))
  /\ aev' = NoAev
  /\ UNCHANGED <<previewIframe, consoleLogs, iframeSrcDoc>>
  /\ FileOpCounted
  /\ UNCHANGED <<dvars, kvars>>

\* setActiveFile(openFiles[k]): the user selects a tab.
SelectTab(k) ==
  /\ k \in 1..Len(openFiles)
  /\ activeFile # openFiles[k]
  /\ openFiles' = WithOpened(openFiles, openFiles[k])
  /\ activeFile' = openFiles[k]
  /\ aev' = NoAev
  /\ FilesKept
  /\ UNCHANGED <<previewIframe, consoleLogs, iframeSrcDoc>>
  /\ FileOpCounted
  /\ UNCHANGED <<dvars, kvars>>

\* setActiveFile(files[k]): the user opens a file of the explorer; counted
\* among the operations of the user on the files.
OpenFile(k) ==
  /\ k \in 1..Len(files)
  /\ openFiles' = WithOpened(openFiles, files[k])
  /\ activeFile' = files[k]
  /\ aev' = NoAev
  /\ FilesKept
  /\ UNCHANGED <<previewIframe, consoleLogs, iframeSrcDoc>>
  /\ FileOpCounted
  /\ UNCHANGED <<dvars, kvars>>

\* updateActiveFileContent(newContent), counted among the operations of the
\* user on the files.
EditActiveFile(newContent) ==
  /\ activeFile # NoFile
  /\ FilesSet(UpdateFileContent(files, activeFile.name, newContent))
  /\ aev' = NoAev
  /\ UNCHANGED <<openFiles, activeFile, previewIframe, consoleLogs, iframeSrcDoc>>
  /\ FileOpCounted
  /\ UNCHANGED <<dvars, kvars>>

\* The operations on the files (open, close, create, delete, upload, edit), with
\* one invocation of askAI whose applies find the editor not yet created and
\* resolve at once.
NextFiles ==
  \/ ask[1].pc = "invoking" /\ ApplyStart(1, ask[1].diffs[ask[1].k].after)
  \/ AskResume(1)
  \/ NoUrgent /\ \E typed \in TypedNames : ConfirmCreateFile(typed)
  \/ NoUrgent /\ \E name \in UploadNames : \E content \in UploadTexts :
                   \E confirmed \in BOOLEAN : FileLoaded(name, content, confirmed)
  \/ NoUrgent /\ \E k \in 1..Len(openFiles) : CloseFile(k)
  \/ NoUrgent /\ \E k \in 1..Len(files) : \E confirmed \in BOOLEAN : DeleteFile(k, confirmed)
  \/ NoUrgent /\ \E k \in 1..Len(files) : OpenFile(k)
  \/ NoUrgent /\ \E k \in 1..Len(openFiles) : SelectTab(k)
  \/ NoUrgent /\ \E c \in FileEditTexts : EditActiveFile(c)
  \/ NoUrgent /\ \E p \in Prompts : AskAI(1, p)
  \/ NoUrgent /\ \E r \in Responses : AskResponse(1, r)
  \/ NoUrgent /\ AskAfterYield(1)

SpecFiles == InitAsk /\ [][NextFiles]_vars

\* C22: after any sequence of create, upload, delete, open, close, edit and
\* AI-apply operations every file of openFiles has a name that is in the file
\* collection; deleteFile removes the open reference together with the file.
C22_OpenFilesExist ==
  \A n \in 1..Len(openFiles) : NameTaken(files, openFiles[n].name)

\* index.html, open from the start, was deleted while the other tabs were open:
\* it is neither in the collection nor among the open files.
C22_Witness ==
  /\ userActs = 1
  /\ Len(files) = 2
  /\ ~NameTaken(files, "index.html")
  /\ ~NameTaken(openFiles, "index.html")
  /\ Len(openFiles) = 2

\* C23: activeFile is null or has the name of a file of openFiles; closing or
\* deleting the active file never leaves activeFile at a file no longer open.
C23_ActiveFileIsOpen ==
  activeFile = NoFile \/ NameTaken(openFiles, activeFile.name)

\* The three tabs were closed one by one; the last close was that of the only
\* tab left, the one of the active file.
C23_Witness ==
  /\ Len(files) = 3
  /\ openFiles = <<>>
  /\ activeFile = NoFile

\* C24: from a collection of pairwise distinct names, after any sequence of
\* create, upload (confirmed or declined), delete, edit and AI-apply
\* operations, rejected ones included, no two files have the same name.
C24_NamesUnique ==
  \A j, k \in 1..Len(files) : files[j].name = files[k].name => j = k

\* b.css was created and style.css was uploaded over the existing file.
C24_Witness ==
  /\ Len(files) = 4
  /\ NameTaken(files, "b.css")
  /\ files[4].name = "style.css"
  /\ files[4].content = <<"b">>

\* C25: a creation or an upload under a name that does not end in a dot and
\* one of the eleven supported extensions is rejected, by confirmCreateFile
\* and by handleFileUpload alike: the step leaves the file collection,
\* openFiles and activeFile as they were.
C25_UnsupportedNamesRejected ==
  [][/\ \A typed \in TypedNames :
          (ConfirmCreateFile(typed) /\ ~MatchesExtensionsRegex(Trim(typed)))
            => UNCHANGED <<files, openFiles, activeFile>>
     /\ \A name \in UploadNames : \A content \in UploadTexts : \A confirmed \in BOOLEAN :
          (FileLoaded(name, content, confirmed) /\ ~MatchesExtensionsRegex(name))
            => UNCHANGED <<files, openFiles, activeFile>>]_vars

\* C26: an upload under a name that is in the collection replaces the file
\* only when the overwrite is confirmed: declined, it leaves the collection,
\* openFiles and activeFile as they were; accepted, the collection then holds
\* exactly one file of the name, with the uploaded content, and that file is
\* the active file.
C26_OverwriteOnlyConfirmed ==
  [][\A name \in UploadNames : \A content \in UploadTexts : \A confirmed \in BOOLEAN :
       (FileLoaded(name, content, confirmed) /\ NameTaken(files, name)) =>
         IF ~confirmed
         THEN UNCHANGED <<files, openFiles, activeFile>>
         ELSE /\ Cardinality({k \in 1..Len(files') : files'[k].name = name}) = 1
              /\ \A k \in 1..Len(files') :
                   files'[k].name = name => files'[k].content = content
              /\ activeFile' # NoFile
              /\ activeFile'.name = name
              /\ activeFile'.content = content]_vars

\* style.css was uploaded over the existing file in the one operation so far.
C26_Witness ==
  /\ userActs = 1
  /\ Len(files) = 3
  /\ files[3].name = "style.css"
  /\ files[3].content = <<"b">>
  /\ activeFile = files[3]

\* ------------------------------------ specification of the sandbox builder
\* Files of a stored collection.
MaxStored == 3

\* The files a stored collection is made of.
StoredPool ==
  { [name |-> "index.html", content |-> <<"a">>, language |-> "html"],
    [name |-> "b.html", content |-> <<>>, language |-> "html"],
    [name |-> "style.css", content |-> <<NL>>, language |-> "css"],
    [name |-> "b.css", content |-> <<"b">>, language |-> "css"],
    [name |-> "script.js", content |-> <<"a">>, language |-> "js"],
    [name |-> "notes.md", content |-> <<"a">>, language |-> "md"] }

\* The collections loadFilesFromStorage may return: what the application
\* stored, files of distinct names in any order.
StoredCollections ==
  {fs \in UNION {[1..n -> StoredPool] : n \in 0..MaxStored} :
     \A j, k \in 1..Len(fs) : fs[j] = fs[k] => j = k}

\* The state after construction with a stored collection.
InitBuild ==
  /\ DiffIdle
  /\ EditorIdle
  /\ AskIdle
  /\ files \in StoredCollections
  /\ openFiles = InitialOpenFiles(files)
  /\ activeFile = IF Len(InitialOpenFiles(files)) > 0
                  THEN InitialOpenFiles(files)[1] ELSE NoFile
  /\ previewIframe = FALSE
  /\ consoleLogs = <<>>
  /\ debounced = files
  /\ iframeSrcDoc = BuildIframeContent(files)
  /\ timer = 0
  /\ sinceChange = 0
  /\ aev = NoAev

\* The document is built at construction and again after each quiet period.
NextBuild ==
  \/ Tick
  \/ DebounceFire
  \/ ForcePreviewRefresh

SpecBuild == InitBuild /\ [][NextBuild]_vars

\* The least index of a file of the language in the collection, 0 for none.
FirstOfLanguage(fs, lang) ==
  IF \E k \in 1..Len(fs) : fs[k].language = lang
  THEN CHOOSE k \in 1..Len(fs) :
         /\ fs[k].language = lang
         /\ \A j \in 1..(k - 1) : fs[j].language # lang
  ELSE 0

\* C27: the builder uses, for html, css and js, the content of the first
\* file of the language in collection order and ignores later ones; without
\* a css or js file the block is empty, without an html file the body is the
\* placeholder comment; the same collection always yields the same document.
C27_FirstFileOfEachLanguage ==
  LET h == FirstOfLanguage(files, "html")
      c == FirstOfLanguage(files, "css")
      j == FirstOfLanguage(files, "js")
  IN /\ iframeSrcDoc.body = IF h = 0 THEN Placeholder ELSE files[h].content
     /\ iframeSrcDoc.style = IF c = 0 THEN <<>> ELSE files[c].content
     /\ iframeSrcDoc.script = IF j = 0 THEN <<>> ELSE files[j].content
     /\ iframeSrcDoc = BuildIframeContent(files)

\* A collection of two css files and no html or js file was built again after
\* a refresh: the style is that of the first css file, the body is the
\* placeholder and the script is empty.
C27_Witness ==
  /\ Len(files) = 2
  /\ files[1].language = "css"
  /\ files[2].language = "css"
  /\ files[1].content # files[2].content
  /\ aev.op = "rebuild"
  /\ iframeSrcDoc.style = files[1].content
  /\ iframeSrcDoc.body = Placeholder
  /\ iframeSrcDoc.script = <<>>

\* C28: the content carried by the activeFile reference and by every
\* openFiles reference equals the content of the file of the same name in the
\* collection; an edit committed by updateFileContent shows through them.
C28_ReferencesCarryContent ==
  \A k \in 1..Len(files) :
    /\ (activeFile # NoFile /\ activeFile.name = files[k].name)
         => activeFile.content = files[k].content
    /\ \A n \in 1..Len(openFiles) :
         openFiles[n].name = files[k].name => openFiles[n].content = files[k].content

\* C29: with no animated apply in flight and no effect pending the buffer
\* text equals the content input; a change of the content input that arrives
\* while isAnimating is set is applied to the buffer once the animation ends.
\* Stated on the step that ends the animation right after such a change.
C29_InputAppliedAfterAnimation ==
  [][(/\ ev.src = "input"
      /\ ev.anim
      /\ isAnimating
      /\ ~isAnimating'
      /\ editor' = "ready"
      /\ \A a \in ApplyIds : ap'[a].pc \notin Running)
       => buffer' = contentInput']_vars

\* C30: after forcePreviewRefresh the log holds only entries of the execution
\* context loaded by that refresh: no message that the preview's window posts
\* between the clear and the debounced rebuild is appended to the cleared log.
\* Stated on the step right after the refresh.
C30_NoStaleMessageAfterRefresh ==
  [][(aev.op = "refresh" /\ debounced # NoPending /\ aev'.op = "message")
       => consoleLogs' = consoleLogs]_vars

\* A step of askAI: the call, the continuation after the response or the
\* rejection, after the 50 ms timer, and after the apply has settled.
AskStep ==
  \E i \in AskIds :
    \/ \E p \in Prompts : AskAI(i, p)
    \/ \E r \in Responses : AskResponse(i, r)
    \/ \E kind \in FailKinds : AskReject(i, kind)
    \/ AskAfterYield(i)
    \/ AskResume(i)

\* C31: askAI never changes the file names of the collection (it creates
\* and deletes no file, also when the response patches a language that has no
\* file or the target file is deleted while the request or the animation is
\* in flight), and it changes the content of no file but the targets of its
\* queued jobs.
C31_AskKeepsNamesAndOtherFiles ==
  [][AskStep =>
       /\ Len(files') = Len(files)
       /\ \A k \in 1..Len(files) :
            /\ files'[k].name = files[k].name
            /\ files'[k].language = files[k].language
            /\ files'[k].content # files[k].content =>
                 \E i \in AskIds : \E n \in 1..Len(ask[i].diffs) :
                   /\ ask[i].diffs[n].fileName = files[k].name
                   /\ files'[k].content = ask[i].diffs[n].after]_vars

\* The html file was deleted while the request was in flight: the job for it
\* was skipped, the job for the js file was committed, and no file of the
\* name of the first job is in the collection.
C31_Witness ==
  /\ ask[1].pc = "done"
  /\ Len(ask[1].diffs) = 2
  /\ ~NameTaken(files, ask[1].diffs[1].fileName)
  /\ ask[1].committed = <<2>>
  /\ NameTaken(files, ask[1].diffs[2].fileName)
  /\ FindName(files, ask[1].diffs[2].fileName, 1).content = ask[1].diffs[2].after

\* ------------------------------ specification of the flags of the assistant
\* The texts of contextMenuSelection and the texts getGenericCodeAnalysis
\* resolves with.
MenuCodes == {"", "x"}
AnalysisTexts == {<<"e">>}

\* runAiContextMenuAction up to the await of getGenericCodeAnalysis, code
\* being contextMenuSelection. The AI operations, askAI and this one, are
\* numbered in the order in which they are started.
RunAiContextMenuAction(i, code) ==
  /\ ask[i].pc = "idle"
  /\ \A j \in AskIds : j < i => ask[j].pc # "idle"
  /\ IF code = ""
     THEN UNCHANGED <<kvars, aev>>
     ELSE /\ isAiLoading' = TRUE
          /\ aiExplanation' = <<>>
          /\ aiError' = ""
          /\ ask' = [ask EXCEPT ![i].pc = "analysing"]
          /\ aev' = [NoAev EXCEPT !.op = "analyse"]
          /\ UNCHANGED isAiApplyingEdits
  /\ UNCHANGED <<files, openFiles, activeFile, previewIframe, consoleLogs, debounced,
                 iframeSrcDoc, timer, sinceChange>>
  /\ UNCHANGED <<dvars, evars>>

\* getGenericCodeAnalysis resolves with the text: it becomes the
\* explanation and the finally block clears isAiLoading.
AnalysisResponse(i, text) ==
  /\ ask[i].pc = "analysing"
  /\ aiExplanation' = text
  /\ isAiLoading' = FALSE
  /\ ask' = [ask EXCEPT ![i].pc = "done"]
  /\ aev' = [NoAev EXCEPT !.op = "analysed"]
  /\ UNCHANGED <<isAiApplyingEdits, aiError>>
  /\ UNCHANGED <<files, openFiles, activeFile, previewIframe, consoleLogs, debounced,
                 iframeSrcDoc, timer, sinceChange>>
  /\ UNCHANGED <<dvars, evars>>

\* getGenericCodeAnalysis rejects with the error that handleError throws.
AnalysisReject(i, kind) ==
  /\ ask[i].pc = "analysing"
  /\ aiError' = CatchMessage(HandleError(kind))
  /\ isAiLoading' = FALSE
  /\ ask' = [ask EXCEPT ![i].pc = "done", ![i].error = TRUE]
  /\ aev' = [NoAev EXCEPT !.op = "analyseFail"]
  /\ UNCHANGED <<isAiApplyingEdits, aiExplanation>>
  /\ UNCHANGED <<files, openFiles, activeFile, previewIframe, consoleLogs, debounced,
                 iframeSrcDoc, timer, sinceChange>>
  /\ UNCHANGED <<dvars, evars>>

\* Two AI operations, each an askAI or a context menu action, that may
\* overlap; the applies find the editor not yet created and resolve at once.
NextFlags ==
  \/ \E i \in AskIds :
       ask[i].pc = "invoking" /\ ApplyStart(i, ask[i].diffs[ask[i].k].after)
  \/ \E i \in AskIds : AskResume(i)
  \/ NoUrgent /\ \E i \in AskIds : \E p \in Prompts : AskAI(i, p)
  \/ NoUrgent /\ \E i \in AskIds : \E r \in Responses : AskResponse(i, r)
  \/ NoUrgent /\ \E i \in AskIds : \E kind \in FailKinds : AskReject(i, kind)
  \/ NoUrgent /\ \E i \in AskIds : AskAfterYield(i)
  \/ NoUrgent /\ \E i \in AskIds : \E code \in MenuCodes : RunAiContextMenuAction(i, code)
  \/ NoUrgent /\ \E i \in AskIds : \E text \in AnalysisTexts : AnalysisResponse(i, text)
  \/ NoUrgent /\ \E i \in AskIds : \E kind \in FailKinds : AnalysisReject(i, kind)

SpecFlags == InitAsk /\ [][NextFlags]_vars

\* An AI request is awaiting its response; a non-empty job queue is being
\* processed.
Awaiting(i) == ask[i].pc \in {"calling", "analysing"}
Processing(i) == ask[i].pc \in {"yield", "invoking"}

\* C32: isAiLoading is true whenever a request of askAI or of
\* runAiContextMenuAction awaits its response, isAiApplyingEdits is true
\* throughout the processing of a non-empty job queue, the two flags are
\* never true together, and both are false once every started AI operation
\* has finished; also when the invocations overlap.
C32_FlagsFollowTheOperations ==
  /\ (\E i \in AskIds : Awaiting(i)) => isAiLoading
  /\ (\E i \in AskIds : Processing(i)) => isAiApplyingEdits
  /\ ~(isAiLoading /\ isAiApplyingEdits)
  /\ (\A i \in AskIds : ask[i].pc \in {"idle", "done"}) =>
       (~isAiLoading /\ ~isAiApplyingEdits)

\* ------------------------------------------- specification of the tabs
\* closeFile(f) for a file f that may or may not be open: without an open
\* file of its name the handler returns at once.
CloseFileNamed(f) ==
  /\ IF IndexOfName(openFiles, f.name, 1) = 0
     THEN UNCHANGED <<openFiles, activeFile>>
     ELSE /\ activeFile' = ActiveAfterClose(activeFile, openFiles, f.name)
          /\ openFiles' = WithoutName(openFiles, f.name)
  /\ aev' = NoAev
  /\ FilesKept
  /\ UNCHANGED <<previewIframe, consoleLogs, iframeSrcDoc>>
  /\ FileOpCounted
  /\ UNCHANGED <<dvars, kvars>>

\* Opening, selecting and closing files, closeFile being called with any
\* file of the collection or of the tabs; files are created and deleted.
NextTabs ==
  \/ \E k \in 1..Len(files) : OpenFile(k)
  \/ \E k \in 1..Len(openFiles) : SelectTab(k)
  \/ \E k \in 1..Len(openFiles) : CloseFileNamed(openFiles[k])
  \/ \E k \in 1..Len(files) : CloseFileNamed(files[k])
  \/ \E typed \in TypedNames : ConfirmCreateFile(typed)
  \/ \E k \in 1..Len(files) : \E confirmed \in BOOLEAN : DeleteFile(k, confirmed)

SpecTabs == InitAsk /\ [][NextTabs]_vars

\* The open files without the one at position c.
WithoutPosition(ofs, c) ==
  [n \in 1..(Len(ofs) - 1) |-> IF n < c THEN ofs[n] ELSE ofs[n + 1]]

\* What closeFile is to do with the file f on the step.
ClosedAsStated(f) ==
  IF ~NameTaken(openFiles, f.name)
  THEN UNCHANGED <<openFiles, activeFile>>
  ELSE LET c == CHOOSE n \in 1..Len(openFiles) : openFiles[n].name = f.name
           rest == WithoutPosition(openFiles, c)
       IN /\ openFiles' = rest
          /\ IF activeFile # NoFile /\ activeFile.name = f.name
             THEN activeFile' = IF Len(rest) = 0 THEN NoFile
                                ELSE rest[IF c < Len(rest) THEN c ELSE Len(rest)]
             ELSE activeFile' = activeFile

\* C33: closeFile on an open file removes exactly that file from openFiles
\* and keeps the order of the others; if the file was active, the new active
\* file is the one at index min(closedIndex, newLength-1) of the remaining
\* tabs, or null when none remain; otherwise activeFile is unchanged;
\* closeFile on a file that is not open changes nothing.
C33_CloseFile ==
  [][/\ \A k \in 1..Len(openFiles) :
          CloseFileNamed(openFiles[k]) => (ClosedAsStated(openFiles[k]) /\ files' = files)
     /\ \A k \in 1..Len(files) :
          CloseFileNamed(files[k]) => (ClosedAsStated(files[k]) /\ files' = files)]_vars

\* The one operation closed index.html, the active file and the first tab:
\* the tab that took its place is the active file.
C33_Witness ==
  /\ userActs = 1
  /\ Len(files) = 3
  /\ Len(openFiles) = 2
  /\ openFiles[1].name = "style.css"
  /\ openFiles[2].name = "script.js"
  /\ activeFile = openFiles[1]
====
